---- MODULE Spec2Model ----
(***************************************************************************)
(* Task poller of the desktop client (hooks/useTaskPolling): one interval  *)
(* timer per pollTask call, an async callback per tick that awaits a       *)
(* status fetch, and cancelPolling.  Timers, the ref that remembers the    *)
(* current handle, the fetches in flight and the create-store fields the   *)
(* callback writes are the state.  The Create page's generate and cancel   *)
(* handlers (CreatePage, GenerationProgress) drive the hook in PageSpec.    *)
(* The lyrics functions (utils/lyrics.ts) are applied to bounded texts in   *)
(* LyricsSpec, and the two lyrics panels render in PanelSpec.               *)
(* The player store (PlayerSpec), the like toggles of the player and the    *)
(* library store (LikeSpec), the library fetches (LibrarySpec) and the app  *)
(* store's navigation (AppSpec) have a specification each.                  *)
(***************************************************************************)
EXTENDS Integers, FiniteSets, Sequences, TLC

\* ---------------------------------------------------------------- bounds
MaxStarts == 3      \* pollTask calls in one behaviour (interval handles 1..MaxStarts)
MaxInflight == 2    \* status fetches awaiting their response at once, over all loops
MaxScroll == 2      \* scroll timeouts pending at once
MaxSubmit == 1      \* handleGenerate calls awaiting the generate request at once
MaxCancel == 1      \* cancel clicks awaiting the cancel request at once

Handles == 1..MaxStarts
Tasks == {"taskA", "taskB"}                      \* task ids handed to pollTask

\* ------------------------------------------------------------- constants
Null == "null"                                   \* JS null (store fields, ref is 0)
Absent == -1                                     \* an optional number that is missing
LostConnection == "create.lostConnection"        \* t("create.lostConnection")
SuccessText == "create.musicGeneratedSuccess"    \* t("create.musicGeneratedSuccess")
GenericFailure == "Generation failed."
GenerationFailed == "create.generationFailed"    \* t("create.generationFailed")

\* Generation as returned by GET /tasks/{id}: the fields the callback reads.
\* Optional strings are "" when missing (the code tests them with ||).
Running == {"pending", "processing"}
\* the awaits of handleGenerate's smart fill: api.suggestStyle, api.generateLyrics
\* (followed by api.generateTitle or not), api.generateTitle
FillSteps == {"suggestStyle", "generateLyrics", "generateLyricsThenTitle", "generateTitle"}
Payloads == {<<Absent, "">>, <<60, "working">>}    \* (progress, progress_message)
Results == {<<"", "">>, <<"genLyrics", "genTitle">>}    \* (lyrics, title)
Gen(st, pay, res, err) ==
    [status |-> st, progress |-> pay[1], progress_message |-> pay[2],
     lyrics |-> res[1], title |-> res[2], error_message |-> err]
Responses ==
    {Gen(st, pay, <<"", "">>, "") : st \in Running, pay \in Payloads}
    \cup {Gen("completed", pay, res, "") : pay \in Payloads, res \in Results}
    \cup {Gen("failed", <<Absent, "">>, <<"", "">>, err) : err \in {"", "model unavailable"}}

VARIABLES
    pollIntervalRef,    \* pollIntervalRef.current: 0 (null) or an interval handle
    timers,             \* handles of the interval timers that are live
    nextHandle,         \* handle the next setInterval returns
    inflight,           \* per handle: callbacks suspended at await getTaskStatus
    generationStatus, progress, lyrics, title, errorMessage, successMessage,
    progressMessage,    \* the hook's useState
    scrollPending,      \* setTimeout(scrollIntoView, 200) callbacks not yet run
    surfaced,           \* history: handles whose callback ran a terminal branch or the catch
    atCancel,           \* history, per handle: fetches in flight at the last cancel
    cancelled,          \* history: cancelPolling was called since the last pollTask
    currentTaskId,      \* store.currentTaskId
    submitting,         \* handleGenerate calls suspended at await api.generateMusic
    cancelling,         \* cancel onClick handlers suspended at await api.cancelTask
    afterTerminal,      \* history: the loop before the newest had surfaced when the newest began
    filling,            \* per smart-fill request: handleGenerate calls suspended at its await
    fillCancelled,      \* history: cancel ran during smart fill and no generate click since
    given,              \* which argument the lyrics functions or a panel were given
    source,             \* history: the lines a given text was written from
    panel,              \* the component: LyricsPanel or DetailLyricsPanel
    panelLyrics,        \* prop lyrics ("" for undefined: the code tests !lyrics)
    lrcLyrics,          \* prop lrcLyrics, the argument of parseLRC and lrcToPlain
    currentTime, duration, isCurrentTrack,    \* props; times in milliseconds
    lrcLines,           \* result of parseLRC, argument of findActiveLRCIndex
    sections,           \* result of parseLyrics
    activeLRCIndex,     \* result of findActiveLRCIndex
    activeSectionIndex, \* the panels' section index
    plain,              \* result of lrcToPlain
    ran,                \* the function or render that ran last
    currentTrack, isPlaying, queue, queueIndex,    \* usePlayerStore
    playbackTime,       \* usePlayerStore currentTime (seconds)
    generations,        \* useLibraryStore generations
    likeSyncs,          \* per id: player-sync callbacks of toggleLike not yet run
    likeRequests,       \* per id: api.toggleLike requests awaiting their response
    toggled,            \* history: the last like toggle, and whether the stores agreed before it
    interfered,         \* history: another operation replaced currentTrack during that toggle
    total, offset, loading,    \* useLibraryStore
    libraryError,       \* useLibraryStore error
    query,              \* useLibraryStore filters, sortField and sortDir: what a fetch asks for
    fetches,            \* fetchGenerations calls suspended at await api.getGenerations
    fetchTimers,        \* setTimeout(() => get().fetchGenerations(), 0) callbacks not yet run
    debounce,           \* LibraryPage debounceRef: the 300 ms search timeout is pending
    lastIssued,         \* history: the request issued last, and how it ended
    currentPage, previousPage, detailGenerationId, sidebarCollapsed,    \* useAppStore
    shownBefore,        \* history: the page shown when the detail page was entered
    trail               \* history: the last navigation operations

store == <<generationStatus, progress, lyrics, title, errorMessage, successMessage>>
poller == <<pollIntervalRef, timers, nextHandle, inflight>>
history == <<surfaced, atCancel, cancelled>>
page == <<currentTaskId, submitting, cancelling, afterTerminal, filling, fillCancelled>>
props == <<panel, panelLyrics, lrcLyrics, currentTime, duration, isCurrentTrack>>
memo == <<lrcLines, sections, activeLRCIndex, activeSectionIndex>>
lyricsVars == <<given, source, props, memo, plain, ran>>
\* what the hook itself never touches
playerVars == <<currentTrack, isPlaying, queue, queueIndex, playbackTime>>
likeHistory == <<likeSyncs, likeRequests, toggled, interfered>>
likeVars == <<generations, likeHistory>>
libraryVars == <<total, offset, loading, libraryError, query, fetches, fetchTimers,
                 debounce, lastIssued>>
appVars == <<currentPage, previousPage, detailGenerationId, sidebarCollapsed,
             shownBefore, trail>>
stores == <<playerVars, likeVars, libraryVars, appVars>>
outside == <<page, lyricsVars, stores>>
\* the Create page with its hook
create == <<poller, store, progressMessage, scrollPending, history, page>>
vars == <<create, lyricsVars, stores>>
\* what the player store and the like toggles, the library fetches, and the
\* app store leave alone
aroundPlayer == <<create, lyricsVars, libraryVars, appVars>>
aroundLibrary == <<create, lyricsVars, playerVars, likeHistory, appVars>>
aroundApp == <<create, lyricsVars, playerVars, likeVars, libraryVars>>

TypeOK ==
    /\ pollIntervalRef \in 0..MaxStarts
    /\ timers \subseteq Handles
    /\ nextHandle \in 1..(MaxStarts + 1)
    /\ inflight \in [Handles -> 0..MaxInflight]
    /\ generationStatus \in {"idle", "pending", "processing", "completed", "failed"}
    /\ progress \in {0, 60}
    /\ lyrics \in {"", "genLyrics"}
    /\ title \in {"", "genTitle"}
    /\ errorMessage \in {Null, LostConnection, GenericFailure, GenerationFailed,
                         "model unavailable"}
    /\ successMessage \in {Null, SuccessText}
    /\ progressMessage \in {"", "working"}
    /\ scrollPending \in 0..MaxScroll
    /\ surfaced \subseteq Handles
    /\ atCancel \in [Handles -> 0..MaxInflight]
    /\ cancelled \in BOOLEAN
    /\ currentTaskId \in Tasks \cup {Null}
    /\ submitting \in 0..MaxSubmit
    /\ cancelling \in 0..MaxCancel
    /\ afterTerminal \in BOOLEAN
    /\ filling \in [FillSteps -> 0..MaxSubmit]
    /\ fillCancelled \in BOOLEAN
    /\ given \in {"none", "lrc", "lyrics", "lines", "props"}
    /\ panel \in {"LyricsPanel", "DetailLyricsPanel"}
    /\ currentTime \in Int
    /\ duration \in Int
    /\ isCurrentTrack \in BOOLEAN
    /\ activeLRCIndex \in Int
    /\ activeSectionIndex \in Int
    /\ ran \in {"none", "parseLRC", "lrcToPlain", "parseLyrics", "findActiveLRCIndex",
                "render"}

\* createStore initialState, useState(""), useRef(null)
HookIdle ==
    /\ pollIntervalRef = 0
    /\ timers = {}
    /\ nextHandle = 1
    /\ inflight = [h \in Handles |-> 0]
    /\ generationStatus = "idle"
    /\ progress = 0
    /\ lyrics = ""
    /\ title = ""
    /\ errorMessage = Null
    /\ successMessage = Null
    /\ progressMessage = ""
    /\ scrollPending = 0
    /\ surfaced = {}
    /\ atCancel = [h \in Handles |-> 0]
    /\ cancelled = FALSE
    /\ currentTaskId = Null
    /\ submitting = 0
    /\ cancelling = 0
    /\ afterTerminal = FALSE
    /\ filling = [step \in FillSteps |-> 0]
    /\ fillCancelled = FALSE

\* no lyrics function has an argument and no panel is mounted
LyricsIdle ==
    /\ given = "none"
    /\ source = <<>>
    /\ panel = "LyricsPanel"
    /\ panelLyrics = <<>>
    /\ lrcLyrics = <<>>
    /\ currentTime = 0
    /\ duration = 0
    /\ isCurrentTrack = TRUE
    /\ lrcLines = <<>>
    /\ sections = <<>>
    /\ activeLRCIndex = -1
    /\ activeSectionIndex = -1
    /\ plain = <<>>
    /\ ran = "none"

\* generations and tracks: the fields the stores read
TrackIds == {1, 2}
Track(id, liked) == [id |-> id, is_liked |-> liked]
Tracks == {Track(id, liked) : id \in TrackIds, liked \in BOOLEAN}
NoTrack == [id |-> 0, is_liked |-> FALSE]        \* currentTrack: null
NoToggle == [origin |-> "none", id |-> 0, agreed |-> FALSE]

\* usePlayerStore and useLibraryStore as created
PlayerIdle ==
    /\ currentTrack = NoTrack
    /\ isPlaying = FALSE
    /\ queue = <<>>
    /\ queueIndex = -1
    /\ playbackTime = 0
LikesIdle ==
    /\ likeSyncs = [id \in TrackIds |-> 0]
    /\ likeRequests = [id \in TrackIds |-> 0]
    /\ toggled = NoToggle
    /\ interfered = FALSE
\* what a fetch asks for (filters and sort), as set by the user
Queries == {"newest", "liked", "search"}
NoRequest == [n |-> 0, query |-> "none", append |-> FALSE, offset |-> 0,
              base |-> <<>>, ended |-> "none"]
LibraryIdle ==
    /\ total = 0
    /\ offset = 0
    /\ loading = FALSE
    /\ libraryError = Null
    /\ query = "newest"
    /\ fetches = {}
    /\ fetchTimers = 0
    /\ debounce = FALSE
    /\ lastIssued = NoRequest
\* useAppStore as created
AppIdle ==
    /\ currentPage = "create"
    /\ previousPage = "library"
    /\ detailGenerationId = 0                    \* null
    /\ sidebarCollapsed = FALSE
    /\ shownBefore = "create"
    /\ trail = <<>>
StoresIdle ==
    /\ PlayerIdle
    /\ LikesIdle
    /\ generations = <<>>
    /\ LibraryIdle
    /\ AppIdle

Init == HookIdle /\ LyricsIdle /\ StoresIdle

RECURSIVE Sum(_, _)
Sum(f, n) == IF n = 0 THEN 0 ELSE f[n] + Sum(f, n - 1)
\* callbacks suspended at their await, over all loops
InFlight == Sum(inflight, MaxStarts)

\* handle returned by the most recent pollTask (0 before the first)
Newest == nextHandle - 1

\* clearInterval(handle): a no-op for null and for a handle already cleared
ClearInterval(live, handle) == live \ {handle}

\* pollTask(taskId).  The callback captures taskId and uses it only to name the
\* task in its getTaskStatus requests; what the backend answers is any of
\* Responses, so the id is not kept in the state.
SetPollInterval(taskId) ==
    /\ nextHandle <= MaxStarts
    /\ timers' = ClearInterval(timers, pollIntervalRef) \cup {nextHandle}
    /\ pollIntervalRef' = nextHandle
    /\ nextHandle' = nextHandle + 1
    /\ cancelled' = FALSE
PollTask(taskId) ==
    /\ SetPollInterval(taskId)
    /\ UNCHANGED <<inflight, store, progressMessage, scrollPending, surfaced, atCancel>>

\* cancelPolling()
ClearPollInterval ==
    /\ timers' = ClearInterval(timers, pollIntervalRef)
    /\ pollIntervalRef' = 0
    /\ progressMessage' = ""
    /\ atCancel' = inflight
    /\ cancelled' = TRUE
CancelPolling ==
    /\ ClearPollInterval
    /\ UNCHANGED <<nextHandle, inflight, store, scrollPending, surfaced>>

\* the interval fires: the async callback runs up to await api.getTaskStatus(taskId)
Tick(h) ==
    /\ h \in timers
    /\ InFlight < MaxInflight
    /\ inflight' = [inflight EXCEPT ![h] = @ + 1]
    /\ UNCHANGED <<pollIntervalRef, timers, nextHandle, store,
                   progressMessage, scrollPending, history>>

\* bookkeeping shared by the continuations of a fetch of loop h
Settle(h) ==
    /\ inflight' = [inflight EXCEPT ![h] = @ - 1]
    /\ atCancel' = [atCancel EXCEPT ![h] = IF @ > 0 THEN @ - 1 ELSE 0]
    /\ UNCHANGED <<nextHandle, cancelled>>

\* the completed branch without its clearInterval(interval)
CompletedBranchKeepsTimer(h, gen) ==
    /\ scrollPending < MaxScroll
    /\ generationStatus' = "completed"
    /\ lyrics' = IF gen.lyrics # "" THEN gen.lyrics ELSE lyrics
    /\ title' = IF gen.title # "" THEN gen.title ELSE title
    /\ successMessage' = SuccessText
    /\ progressMessage' = ""
    /\ pollIntervalRef' = 0
    /\ scrollPending' = scrollPending + 1
    /\ surfaced' = surfaced \cup {h}
    /\ UNCHANGED <<errorMessage, timers>>

\* the completed branch storing the returned lyrics and title even when empty
CompletedBranchOverwrites(h, gen) ==
    /\ scrollPending < MaxScroll
    /\ generationStatus' = "completed"
    /\ lyrics' = gen.lyrics
    /\ title' = gen.title
    /\ successMessage' = SuccessText
    /\ progressMessage' = ""
    /\ timers' = ClearInterval(timers, h)
    /\ pollIntervalRef' = 0
    /\ scrollPending' = scrollPending + 1
    /\ surfaced' = surfaced \cup {h}
    /\ UNCHANGED errorMessage

\* gen.status === "completed" (MaxScroll caps the timeouts pending at once)
CompletedBranch(h, gen) ==
    /\ scrollPending < MaxScroll
    /\ generationStatus' = "completed"
    /\ lyrics' = IF gen.lyrics # "" THEN gen.lyrics ELSE lyrics
    /\ title' = IF gen.title # "" THEN gen.title ELSE title
    /\ successMessage' = SuccessText
    /\ progressMessage' = ""
    /\ timers' = ClearInterval(timers, h)
    /\ pollIntervalRef' = 0
    /\ scrollPending' = scrollPending + 1
    /\ surfaced' = surfaced \cup {h}
    /\ UNCHANGED errorMessage

\* the failed branch ignoring gen.error_message
FailedBranchGenericOnly(h, gen) ==
    /\ generationStatus' = "failed"
    /\ errorMessage' = GenericFailure
    /\ progressMessage' = ""
    /\ timers' = ClearInterval(timers, h)
    /\ pollIntervalRef' = 0
    /\ surfaced' = surfaced \cup {h}
    /\ UNCHANGED <<lyrics, title, successMessage, scrollPending>>

\* gen.status === "failed"
FailedBranch(h, gen) ==
    /\ generationStatus' = "failed"
    /\ errorMessage' = IF gen.error_message # "" THEN gen.error_message ELSE GenericFailure
    /\ progressMessage' = ""
    /\ timers' = ClearInterval(timers, h)
    /\ pollIntervalRef' = 0
    /\ surfaced' = surfaced \cup {h}
    /\ UNCHANGED <<lyrics, title, successMessage, scrollPending>>

\* the running case clearing the progress message as the terminal branches do
RunningBranchClearsMessage(h, gen) ==
    /\ progressMessage' = ""
    /\ UNCHANGED <<timers, pollIntervalRef, generationStatus, lyrics, title,
                   errorMessage, successMessage, scrollPending, surfaced>>

\* neither branch taken: pending or processing
RunningBranch(h, gen) ==
    /\ progressMessage' = gen.progress_message
    /\ UNCHANGED <<timers, pollIntervalRef, generationStatus, lyrics, title,
                   errorMessage, successMessage, scrollPending, surfaced>>

\* the fetch of a callback of loop h resolves with gen: the try block after the await
Resolve(h, gen) ==
    /\ inflight[h] > 0
    /\ progress' = IF gen.progress # Absent THEN gen.progress ELSE 0
    /\ CASE gen.status = "completed" -> CompletedBranch(h, gen)
         [] gen.status = "failed" -> FailedBranch(h, gen)
         [] OTHER -> RunningBranch(h, gen)
    /\ Settle(h)

\* the catch block without its clearInterval(interval): the loop retries
CatchBranchKeepsTimer(h) ==
    /\ pollIntervalRef' = 0
    /\ generationStatus' = "failed"
    /\ errorMessage' = LostConnection
    /\ progressMessage' = ""
    /\ surfaced' = surfaced \cup {h}
    /\ UNCHANGED <<timers, progress, lyrics, title, successMessage, scrollPending>>

\* the catch block
CatchBranch(h) ==
    /\ timers' = ClearInterval(timers, h)
    /\ pollIntervalRef' = 0
    /\ generationStatus' = "failed"
    /\ errorMessage' = LostConnection
    /\ progressMessage' = ""
    /\ surfaced' = surfaced \cup {h}
    /\ UNCHANGED <<progress, lyrics, title, successMessage, scrollPending>>

\* the fetch of a callback of loop h rejects (transport or parse failure)
Reject(h) ==
    /\ inflight[h] > 0
    /\ CatchBranch(h)
    /\ Settle(h)

\* the 200 ms timeout set by the completed branch fires
ScrollIntoView ==
    /\ scrollPending > 0
    /\ scrollPending' = scrollPending - 1
    /\ UNCHANGED <<poller, store, progressMessage, history>>

\* steps of the hook and of its callbacks: nothing outside the hook changes
Start == \E taskId \in Tasks : PollTask(taskId) /\ UNCHANGED outside
Cancel == CancelPolling /\ UNCHANGED outside
TickOf(h) == Tick(h) /\ UNCHANGED outside
TimerTick == \E h \in Handles : TickOf(h)
FetchResolves ==
    \E h \in Handles : \E gen \in Responses : Resolve(h, gen) /\ UNCHANGED outside
FetchRejects == \E h \in Handles : Reject(h) /\ UNCHANGED outside
Scroll == ScrollIntoView /\ UNCHANGED outside

Next ==
    \/ Start
    \/ Cancel
    \/ TimerTick
    \/ FetchResolves
    \/ FetchRejects
    \/ Scroll

Spec == Init /\ [][Next]_vars

\* every action that is fair: the interval keeps firing while it is live, and a
\* fetch in flight settles (resolves or rejects); pollTask and cancelPolling are
\* the user's and are not
Settles(h) == (Reject(h) \/ \E gen \in Responses : Resolve(h, gen)) /\ UNCHANGED outside
FairSpec ==
    /\ Spec
    /\ \A h \in Handles : WF_vars(TickOf(h)) /\ WF_vars(Settles(h))
    /\ WF_vars(Scroll)

\* ------------------------------------------------------------- Create page
\* CreatePage and GenerationProgress: isGenerating
IsGenerating == generationStatus \in Running

\* handleGenerate calls suspended in smart fill, and in all
Filling ==
    filling["suggestStyle"] + filling["generateLyrics"]
        + filling["generateLyricsThenTitle"] + filling["generateTitle"]
Pending == Filling + submitting

\* handleGenerate, else-branch (not smart mode, or lyrics present), up to its
\* await of the generate request.  The button is enabled while the prompt is
\* non-empty and nothing is generating.
GenerateClick ==
    /\ ~IsGenerating
    /\ Pending < MaxSubmit
    /\ generationStatus' = "pending"
    /\ progress' = 0
    /\ errorMessage' = Null
    /\ submitting' = submitting + 1
    /\ fillCancelled' = FALSE
    /\ UNCHANGED <<poller, lyrics, title, successMessage, progressMessage,
                   scrollPending, history, currentTaskId, cancelling, afterTerminal,
                   filling>>
    /\ UNCHANGED <<lyricsVars, stores>>

\* handleGenerate, smart mode without lyrics, up to await api.suggestStyle
SmartGenerateClick ==
    /\ ~IsGenerating
    /\ lyrics = ""
    /\ Pending < MaxSubmit
    /\ generationStatus' = "pending"
    /\ progress' = 0
    /\ errorMessage' = Null
    /\ filling' = [filling EXCEPT !["suggestStyle"] = @ + 1]
    /\ fillCancelled' = FALSE
    /\ UNCHANGED <<poller, lyrics, title, successMessage, progressMessage,
                   scrollPending, history, currentTaskId, submitting, cancelling,
                   afterTerminal>>
    /\ UNCHANGED <<lyricsVars, stores>>

\* a handler leaves the await of one smart-fill request for the next await:
\* another smart-fill request, or the generate request of the try block
GenerateRequest == "generateMusic"
Advance(from, to) ==
    /\ filling[from] > 0
    /\ filling' = [step \in FillSteps |->
                     IF step = from THEN filling[step] - 1
                     ELSE IF step = to THEN filling[step] + 1
                     ELSE filling[step]]
    /\ submitting' = IF to = GenerateRequest THEN submitting + 1 ELSE submitting
    /\ UNCHANGED <<poller, generationStatus, progress, errorMessage, successMessage,
                   progressMessage, scrollPending, history, currentTaskId, cancelling,
                   afterTerminal, fillCancelled>>
    /\ UNCHANGED <<lyricsVars, stores>>

\* step 1 settles: style with a title suggestion (titled) or without, or the
\* request failed (as without); instrumental is the user's setting
SuggestStyleSettles(titled, instrumental) ==
    /\ title' = IF titled THEN "genTitle" ELSE title
    /\ UNCHANGED lyrics
    /\ Advance("suggestStyle",
               IF ~instrumental
               THEN (IF titled THEN "generateLyrics" ELSE "generateLyricsThenTitle")
               ELSE (IF titled THEN GenerateRequest ELSE "generateTitle"))

\* step 2 settles: lyricsRes.lyrics is stored when present
GenerateLyricsSettles(step, newLyrics) ==
    /\ lyrics' = IF newLyrics # "" THEN newLyrics ELSE lyrics
    /\ UNCHANGED title
    /\ Advance(step, IF step = "generateLyrics" THEN GenerateRequest ELSE "generateTitle")

\* step 3 settles: titleRes.title is stored, nothing when the request failed
GenerateTitleSettles(ok) ==
    /\ title' = IF ok THEN "genTitle" ELSE title
    /\ UNCHANGED lyrics
    /\ Advance("generateTitle", GenerateRequest)

\* the generate request resolves with res.task_id: the rest of the try block
GenerateResolves(taskId) ==
    /\ submitting > 0
    /\ currentTaskId' = taskId
    /\ generationStatus' = "processing"
    /\ SetPollInterval(taskId)
    /\ afterTerminal' = (Newest \in surfaced)
    /\ submitting' = submitting - 1
    /\ UNCHANGED <<inflight, progress, lyrics, title, errorMessage, successMessage,
                   progressMessage, scrollPending, surfaced, atCancel, cancelling,
                   filling, fillCancelled>>
    /\ UNCHANGED <<lyricsVars, stores>>

\* the generate request rejects: the catch block
GenerateRejects ==
    /\ submitting > 0
    /\ generationStatus' = "failed"
    /\ errorMessage' = GenerationFailed
    /\ submitting' = submitting - 1
    /\ UNCHANGED <<poller, progress, lyrics, title, successMessage, progressMessage,
                   scrollPending, history, currentTaskId, cancelling, afterTerminal,
                   filling, fillCancelled>>
    /\ UNCHANGED <<lyricsVars, stores>>

\* the cancel handler after its try/catch: onCancel(); setGenerationStatus("idle")
CancelContinuation ==
    /\ ClearPollInterval
    /\ generationStatus' = "idle"
    /\ UNCHANGED <<nextHandle, inflight, progress, lyrics, title, errorMessage,
                   successMessage, scrollPending, surfaced>>

\* the cancel button (rendered while generating) is clicked: with a task id the
\* handler suspends at await api.cancelTask, without one it runs to its end
CancelClick ==
    /\ IsGenerating
    /\ IF currentTaskId # Null
       THEN /\ cancelling < MaxCancel
            /\ cancelling' = cancelling + 1
            /\ UNCHANGED <<poller, store, progressMessage, scrollPending, history,
                           fillCancelled>>
       ELSE /\ CancelContinuation
            /\ fillCancelled' = (fillCancelled \/ (Filling > 0 /\ generationStatus = "pending"))
            /\ UNCHANGED cancelling
    /\ UNCHANGED <<currentTaskId, submitting, afterTerminal, filling>>
    /\ UNCHANGED <<lyricsVars, stores>>

\* the cancel request settles; the handler ignores whether it resolved (ok) or
\* rejected and continues
CancelSettles(ok) ==
    /\ cancelling > 0
    /\ CancelContinuation
    /\ cancelling' = cancelling - 1
    /\ UNCHANGED <<currentTaskId, submitting, afterTerminal, filling, fillCancelled>>
    /\ UNCHANGED <<lyricsVars, stores>>

GenerateRequestResolves == \E taskId \in Tasks : GenerateResolves(taskId)
CancelRequestSettles == \E ok \in BOOLEAN : CancelSettles(ok)

SuggestStyleRequestSettles ==
    \E titled \in BOOLEAN : \E instrumental \in BOOLEAN :
        SuggestStyleSettles(titled, instrumental)
GenerateLyricsRequestSettles ==
    \E step \in {"generateLyrics", "generateLyricsThenTitle"} :
        \E newLyrics \in {"", "genLyrics"} : GenerateLyricsSettles(step, newLyrics)
GenerateTitleRequestSettles == \E ok \in BOOLEAN : GenerateTitleSettles(ok)

PageNext ==
    \/ GenerateClick
    \/ SmartGenerateClick
    \/ SuggestStyleRequestSettles
    \/ GenerateLyricsRequestSettles
    \/ GenerateTitleRequestSettles
    \/ GenerateRequestResolves
    \/ GenerateRejects
    \/ CancelClick
    \/ CancelRequestSettles
    \/ TimerTick
    \/ FetchResolves
    \/ FetchRejects
    \/ Scroll

PageSpec == Init /\ [][PageNext]_vars

\* ------------------------------------------------------------- lyrics text
\* utils/lyrics.ts.  A text is a sequence of characters (one-character
\* strings; a CJK character is written by its code point, "u524D"), so that
\* split, trim, parseInt and the regular expressions are computed on it.
NL == "\n"
WhiteSpace == {" ", "\t", "\r"}     \* what \s matches and trim() removes
LineTerminators == {"\n", "\r"}     \* what . does not match
DigitChars == <<"0", "1", "2", "3", "4", "5", "6", "7", "8", "9">>
UpperCase == <<"A", "B", "C", "D", "E", "F", "G", "H", "I", "J", "K", "L", "M",
               "N", "O", "P", "Q", "R", "S", "T", "U", "V", "W", "X", "Y", "Z">>
LowerCase == <<"a", "b", "c", "d", "e", "f", "g", "h", "i", "j", "k", "l", "m",
               "n", "o", "p", "q", "r", "s", "t", "u", "v", "w", "x", "y", "z">>

\* the /i flag: letters are compared without case
Lower(c) ==
    IF \E i \in 1..Len(UpperCase) : UpperCase[i] = c
    THEN LowerCase[CHOOSE i \in 1..Len(UpperCase) : UpperCase[i] = c]
    ELSE c
LowerAll(s) == [i \in 1..Len(s) |-> Lower(s[i])]

\* \d
IsDigit(c) == \E i \in 1..Len(DigitChars) : DigitChars[i] = c
AllDigits(s) == \A i \in 1..Len(s) : IsDigit(s[i])
DigitVal(c) == (CHOOSE i \in 1..Len(DigitChars) : DigitChars[i] = c) - 1
\* parseInt(s, 10) of a string of digits
RECURSIVE ParseInt(_)
ParseInt(s) ==
    IF s = <<>> THEN 0
    ELSE 10 * ParseInt(SubSeq(s, 1, Len(s) - 1)) + DigitVal(s[Len(s)])

\* text.split("\n")
RECURSIVE Split(_)
Split(s) ==
    IF \E i \in 1..Len(s) : s[i] = NL
    THEN LET i == CHOOSE i \in 1..Len(s) : s[i] = NL /\ \A j \in 1..(i - 1) : s[j] # NL
         IN <<SubSeq(s, 1, i - 1)>> \o Split(SubSeq(s, i + 1, Len(s)))
    ELSE <<s>>

\* lines.join("\n")
RECURSIVE Join(_)
Join(lines) ==
    IF lines = <<>> THEN <<>>
    ELSE IF Len(lines) = 1 THEN lines[1]
    ELSE lines[1] \o <<NL>> \o Join(Tail(lines))

\* text.trim()
RECURSIVE TrimStart(_)
TrimStart(s) == IF s # <<>> /\ s[1] \in WhiteSpace THEN TrimStart(Tail(s)) ELSE s
RECURSIVE TrimEnd(_)
TrimEnd(s) ==
    IF s # <<>> /\ s[Len(s)] \in WhiteSpace THEN TrimEnd(SubSeq(s, 1, Len(s) - 1)) ELSE s
Trim(s) == TrimEnd(TrimStart(s))

\* raw.match(/^\[(\d{2}):(\d{2})\.(\d{2,3})\](.*)$/) with a fraction of w digits
StampAt(raw, w) ==
    /\ Len(raw) >= 8 + w
    /\ raw[1] = "["
    /\ AllDigits(SubSeq(raw, 2, 3))
    /\ raw[4] = ":"
    /\ AllDigits(SubSeq(raw, 5, 6))
    /\ raw[7] = "."
    /\ AllDigits(SubSeq(raw, 8, 7 + w))
    /\ raw[8 + w] = "]"
    /\ \A i \in (9 + w)..Len(raw) : raw[i] \notin LineTerminators
\* the match array (its groups 1..4), or no match; \d{2,3} takes three digits
\* when it can
NoMatch == [matched |-> FALSE]
Groups(raw, w) ==
    [matched |-> TRUE, g1 |-> SubSeq(raw, 2, 3), g2 |-> SubSeq(raw, 5, 6),
     g3 |-> SubSeq(raw, 8, 7 + w), g4 |-> SubSeq(raw, 9 + w, Len(raw))]
TimestampMatch(raw) ==
    IF StampAt(raw, 3) THEN Groups(raw, 3)
    ELSE IF StampAt(raw, 2) THEN Groups(raw, 2)
    ELSE NoMatch

\* SECTION_PATTERN: /^\[?(Intro|Verse\s*\d*|Pre-?Chorus|Chorus|Bridge|Outro|
\* Instrumental\s*Break|<CJK section names>)\s*\d?\]?\s*$/i
FixedMarkers ==
    {<<"i", "n", "t", "r", "o">>,
     <<"p", "r", "e", "c", "h", "o", "r", "u", "s">>,
     <<"p", "r", "e", "-", "c", "h", "o", "r", "u", "s">>,
     <<"c", "h", "o", "r", "u", "s">>,
     <<"b", "r", "i", "d", "g", "e">>,
     <<"o", "u", "t", "r", "o">>,
     <<"u524D", "u594F">>, <<"u4E3B", "u6B4C">>,
     <<"u526F", "u6B4C">>, <<"u526F", "u6B4C", "u524D">>,
     <<"u9884", "u526F", "u6B4C">>, <<"u5BFC", "u6B4C">>,
     <<"u6865", "u6BB5">>, <<"u8FC7", "u6865">>, <<"u8FC7", "u6E21">>,
     <<"u95F4", "u594F">>, <<"u5C3E", "u58F0">>, <<"u7ED3", "u5C3E">>,
     <<"u5C3E", "u594F">>,
     <<"u7B2C", "u4E00", "u6BB5">>, <<"u7B2C", "u4E8C", "u6BB5">>,
     <<"u7B2C", "u4E09", "u6BB5">>}
VerseWord == <<"v", "e", "r", "s", "e">>
InstrumentalWord == <<"i", "n", "s", "t", "r", "u", "m", "e", "n", "t", "a", "l">>
BreakWord == <<"b", "r", "e", "a", "k">>
\* Verse\s*\d*
VerseForm(w) ==
    /\ Len(w) >= Len(VerseWord)
    /\ LowerAll(SubSeq(w, 1, Len(VerseWord))) = VerseWord
    /\ AllDigits(TrimStart(SubSeq(w, Len(VerseWord) + 1, Len(w))))
\* Instrumental\s*Break
InstrumentalBreakForm(w) ==
    /\ Len(w) >= Len(InstrumentalWord)
    /\ LowerAll(SubSeq(w, 1, Len(InstrumentalWord))) = InstrumentalWord
    /\ LowerAll(TrimStart(SubSeq(w, Len(InstrumentalWord) + 1, Len(w)))) = BreakWord
\* the alternation in the parentheses
MarkerName(w) ==
    \/ LowerAll(w) \in FixedMarkers
    \/ VerseForm(w)
    \/ InstrumentalBreakForm(w)
\* \s*\d?\]?\s*$
MarkerTail(u) ==
    LET a == TrimStart(u)
        b == IF a # <<>> /\ IsDigit(a[1]) THEN Tail(a) ELSE a
        c == IF b # <<>> /\ b[1] = "]" THEN Tail(b) ELSE b
    IN TrimStart(c) = <<>>
\* SECTION_PATTERN.test(text): some split of the text fits the pattern
SectionPattern(text) ==
    \E open \in 0..1 :
        /\ open = 1 => (text # <<>> /\ text[1] = "[")
        /\ \E k \in open..Len(text) :
               /\ MarkerName(SubSeq(text, open + 1, k))
               /\ MarkerTail(SubSeq(text, k + 1, Len(text)))

\* ms = 2 digits * 10, or 3 digits as they are, read without the scaling
FractionMsUnscaled(digits) == ParseInt(digits)
\* match[3].length === 2 ? parseInt(match[3], 10) * 10 : parseInt(match[3], 10)
FractionMs(digits) ==
    IF Len(digits) = 2 THEN ParseInt(digits) * 10 ELSE ParseInt(digits)

\* minutes * 60 + seconds + ms / 1000 as parseLRC stores it: the double is named
\* by its count of milliseconds.  Counts that differ give doubles that differ,
\* in the same order, so <= on times is <= on counts.
TimeOf(minutes, seconds, ms) == (minutes * 60 + seconds) * 1000 + ms

\* the filter of parseLRC with the structural markers let through
KeepsTextAny(text) == text # <<>>
\* text && !SECTION_PATTERN.test(text)
KeepsText(text) == text # <<>> /\ ~SectionPattern(text)

\* the loop of parseLRC over the split lines
RECURSIVE ParseLRCLines(_)
ParseLRCLines(raws) ==
    IF raws = <<>> THEN <<>>
    ELSE LET match == TimestampMatch(raws[1])
             rest == ParseLRCLines(Tail(raws))
         IN IF match.matched
            THEN LET minutes == ParseInt(match.g1)
                     seconds == ParseInt(match.g2)
                     ms == FractionMs(match.g3)
                     time == TimeOf(minutes, seconds, ms)
                     text == Trim(match.g4)
                 IN IF KeepsText(text)
                    THEN <<[time |-> time, text |-> text]>> \o rest
                    ELSE rest
            ELSE rest
ParseLRC(lrc) == ParseLRCLines(Split(lrc))

\* ---- binary64 arithmetic of lrcToPlain's (time - prevTime) > 6 ----
\* A double below 2^13 is [int, frac]: its integer part and the first FracLen
\* binary digits of its fraction (the digits after them are 0).
FracLen == 64
Significand == 53
\* the first n binary digits of r / d, 0 <= r < d
RECURSIVE BinaryDigits(_, _, _)
BinaryDigits(r, d, n) ==
    IF n = 0 THEN <<>>
    ELSE IF 2 * r >= d THEN <<1>> \o BinaryDigits(2 * r - d, d, n - 1)
    ELSE <<0>> \o BinaryDigits(2 * r, d, n - 1)
\* what is left of r / d after n digits (0: the digits are exact)
RECURSIVE BinaryRest(_, _, _)
BinaryRest(r, d, n) ==
    IF n = 0 THEN r
    ELSE IF 2 * r >= d THEN BinaryRest(2 * r - d, d, n - 1)
    ELSE BinaryRest(2 * r, d, n - 1)
\* x + 2^-p
AddUlp(x, p) ==
    LET zeros == {i \in 1..p : x.frac[i] = 0}
    IN IF zeros = {}
       THEN [int |-> x.int + 1,
             frac |-> [i \in 1..FracLen |-> IF i <= p THEN 0 ELSE x.frac[i]]]
       ELSE LET z == CHOOSE i \in zeros : \A j \in zeros : j <= i
            IN [int |-> x.int,
                frac |-> [i \in 1..FracLen |->
                             IF i = z THEN 1
                             ELSE IF i > z /\ i <= p THEN 0 ELSE x.frac[i]]]
\* x rounded to p fraction digits, to nearest, ties to even; inexact: x has
\* non-zero digits after the FracLen it carries
RoundAt(x, p, inexact) ==
    LET half == x.frac[p + 1] = 1
        more == inexact \/ \E i \in (p + 2)..FracLen : x.frac[i] = 1
        odd == IF p = 0 THEN x.int % 2 = 1 ELSE x.frac[p] = 1
        cut == [int |-> x.int,
                frac |-> [i \in 1..FracLen |-> IF i <= p THEN x.frac[i] ELSE 0]]
    IN IF half /\ (more \/ odd) THEN AddUlp(cut, p) ELSE cut
\* floor(log2(n)), n >= 1
RECURSIVE Exponent(_)
Exponent(n) == IF n < 2 THEN 0 ELSE 1 + Exponent(n \div 2)
\* ms / 1000
Thousandth(ms) ==
    LET x == [int |-> 0, frac |-> BinaryDigits(ms, 1000, FracLen)]
        lead == CHOOSE i \in 1..FracLen : x.frac[i] = 1 /\ \A j \in 1..(i - 1) : x.frac[j] = 0
    IN IF ms = 0 THEN x
       ELSE RoundAt(x, lead + Significand - 1, BinaryRest(ms, 1000, FracLen) # 0)
\* whole + ms / 1000, whole an integer
DoubleOf(whole, ms) ==
    LET f == Thousandth(ms)
    IN IF whole = 0 THEN f
       ELSE RoundAt([int |-> whole, frac |-> f.frac],
                    Significand - 1 - Exponent(whole), FALSE)
Zero == [int |-> 0, frac |-> [i \in 1..FracLen |-> 0]]
\* x > y
Greater(x, y) ==
    \/ x.int > y.int
    \/ /\ x.int = y.int
       /\ \E i \in 1..FracLen :
              /\ x.frac[i] > y.frac[i]
              /\ \A j \in 1..(i - 1) : x.frac[j] = y.frac[j]
\* (time - prevTime) > 6: the difference is rounded to nearest, ties to even,
\* so it exceeds 6 exactly when time - prevTime > 6 + 2^-51, half the distance
\* from 6 to the next double (6 is even)
GapOver6(time, prevTime) ==
    Greater(time, AddUlp([int |-> prevTime.int + 6, frac |-> prevTime.frac], 51))

\* the loop of lrcToPlain over the split lines
RECURSIVE PlainLines(_, _, _)
PlainLines(raws, result, prevTime) ==
    IF raws = <<>> THEN result
    ELSE LET raw == raws[1]
             match == TimestampMatch(raw)
         IN IF match.matched
            THEN LET time == DoubleOf(ParseInt(match.g1) * 60 + ParseInt(match.g2),
                                      FractionMs(match.g3))
                     text == Trim(match.g4)
                 IN IF text = <<>>
                    THEN PlainLines(Tail(raws), result, prevTime)
                    ELSE PlainLines(Tail(raws),
                                    (IF result # <<>> /\ GapOver6(time, prevTime)
                                     THEN Append(result, <<>>) ELSE result)
                                        \o <<text>>,
                                    time)
            ELSE PlainLines(Tail(raws), Append(result, raw), prevTime)
LrcToPlain(lrc) == Join(PlainLines(Split(lrc), <<>>, Zero))

\* lines[i].time < currentTime, the comparison made strict
StartedBefore(line, now) == line.time < now
\* lines[i].time <= currentTime
Started(line, now) == line.time <= now
\* the for loop without its break: the scan goes on past a later line
RECURSIVE ScanActiveNoBreak(_, _, _, _)
ScanActiveNoBreak(lines, now, i, active) ==
    IF i < Len(lines)
    THEN IF Started(lines[i + 1], now)
         THEN ScanActiveNoBreak(lines, now, i + 1, i)
         ELSE ScanActiveNoBreak(lines, now, i + 1, active)
    ELSE active
\* the for loop of findActiveLRCIndex from (0-based) index i on
RECURSIVE ScanActive(_, _, _, _)
ScanActive(lines, now, i, active) ==
    IF i < Len(lines)
    THEN IF Started(lines[i + 1], now)
         THEN ScanActive(lines, now, i + 1, i)
         ELSE active
    ELSE active
FindActiveLRCIndex(lines, now) ==
    IF Len(lines) = 0 THEN -1 ELSE ScanActive(lines, now, 0, -1)

\* line.match(/^\[(.+)\]$/)
TagMatch(line) ==
    /\ Len(line) >= 3
    /\ line[1] = "["
    /\ line[Len(line)] = "]"
    /\ \A i \in 2..(Len(line) - 1) : line[i] \notin LineTerminators
TagName(line) == SubSeq(line, 2, Len(line) - 1)
\* the push of parseLyrics made for every pending section
PushAlways(secs, currentTag, currentLines, sectionIndex) ==
    Append(secs, [tag |-> currentTag, lines |-> currentLines, index |-> sectionIndex])
\* the push of parseLyrics made only for secs that have lines
PushIfLines(secs, currentTag, currentLines, sectionIndex) ==
    IF Len(currentLines) > 0
    THEN Append(secs, [tag |-> currentTag, lines |-> currentLines, index |-> sectionIndex])
    ELSE secs
\* if (currentLines.length > 0 || currentTag) sections.push({...})
Push(secs, currentTag, currentLines, sectionIndex) ==
    IF Len(currentLines) > 0 \/ currentTag # <<>>
    THEN Append(secs, [tag |-> currentTag, lines |-> currentLines, index |-> sectionIndex])
    ELSE secs
\* the loop of parseLyrics and the push after it; sectionIndex++ happens with a push
RECURSIVE ScanLyrics(_, _, _, _, _)
ScanLyrics(lines, secs, currentTag, currentLines, sectionIndex) ==
    IF lines = <<>>
    THEN Push(secs, currentTag, currentLines, sectionIndex)
    ELSE IF TagMatch(lines[1])
         THEN LET pushed == Push(secs, currentTag, currentLines, sectionIndex)
              IN ScanLyrics(Tail(lines), pushed, TagName(lines[1]), <<>>,
                            IF Len(pushed) > Len(secs)
                            THEN sectionIndex + 1 ELSE sectionIndex)
         ELSE ScanLyrics(Tail(lines), secs, currentTag,
                         Append(currentLines, lines[1]), sectionIndex)
ParseLyrics(text) == ScanLyrics(Split(text), <<>>, <<>>, <<>>, 0)

\* ------------------------------------------------- lyrics inputs and calls
\* how a timestamp is written: [MM:SS.ff] or [MM:SS.fff]
Pad2(n) == <<DigitChars[(n \div 10) + 1], DigitChars[(n % 10) + 1]>>
Pad3(n) == <<DigitChars[(n \div 100) + 1]>> \o Pad2(n % 100)
Stamp(mm, ss, frac, width) ==
    <<"[">> \o Pad2(mm) \o <<":">> \o Pad2(ss) \o <<".">>
        \o (IF width = 2 THEN Pad2(frac) ELSE Pad3(frac)) \o <<"]">>

Hello == <<"H", "e", "l", "l", "o">>
World == <<"W", "o", "r", "l", "d">>
Verse == <<"V", "e", "r", "s", "e">>
Chorus == <<"C", "h", "o", "r", "u", "s">>
La == <<"l", "a">>
Line1 == <<"l", "i", "n", "e", "1">>
Line2 == <<"l", "i", "n", "e", "2">>

\* A line of time-coded text as it was written: stamp is <<MM, SS, fraction,
\* digits of the fraction>> (<<>> when the line has none) and body the rest of
\* the line.  timed, shows and marker say how the line is to be read: whether
\* it is of the form [MM:SS.ff]text, its text without the surrounding blanks,
\* and whether that text is a structural marker.
LrcLine(stamp, body, timed, shows, marker) ==
    [stamp |-> stamp, body |-> body, timed |-> timed, shows |-> shows, marker |-> marker]
HelloAt1500 == LrcLine(<<0, 1, 50, 2>>, Hello, TRUE, Hello, FALSE)
WorldAt3000 == LrcLine(<<0, 3, 0, 2>>, World, TRUE, World, FALSE)
HelloAt1500ms == LrcLine(<<0, 1, 500, 3>>, Hello, TRUE, Hello, FALSE)
VerseAt1500 == LrcLine(<<0, 1, 50, 2>>, Verse, TRUE, Verse, TRUE)
LaAt2050 == LrcLine(<<0, 2, 5, 2>>, <<" ">> \o La \o <<" ">>, TRUE, La, FALSE)
WorldAt8050 == LrcLine(<<0, 8, 5, 2>>, World, TRUE, World, FALSE)
WorldAt7500 == LrcLine(<<0, 7, 50, 2>>, World, TRUE, World, FALSE)
BlankAt9000 == LrcLine(<<0, 9, 0, 2>>, <<" ", " ">>, TRUE, <<>>, FALSE)
PlainHello == LrcLine(<<>>, Hello, FALSE, <<>>, FALSE)
OneDigitFraction ==
    LrcLine(<<>>, <<"[", "0", "1", ":", "0", "7", ".", "5", "]">> \o La, FALSE, <<>>, FALSE)
CarriageReturn == LrcLine(<<0, 5, 0, 2>>, La \o <<"\r">>, FALSE, <<>>, FALSE)
LrcSamples ==
    {HelloAt1500, WorldAt3000, HelloAt1500ms, VerseAt1500, LaAt2050, WorldAt8050,
     WorldAt7500, BlankAt9000, PlainHello, OneDigitFraction, CarriageReturn}
Written(s) ==
    (IF s.stamp = <<>> THEN <<>> ELSE Stamp(s.stamp[1], s.stamp[2], s.stamp[3], s.stamp[4]))
        \o s.body

\* A line of plain lyrics as it was written, and the tag name it carries when
\* it is a tag line [TagName] (<<>> when it is not).
LyricLine(line, tag) == [line |-> line, tag |-> tag]
LyricSamples ==
    {LyricLine(<<"[">> \o Verse \o <<"]">>, Verse),
     LyricLine(<<"[">> \o Chorus \o <<"]">>, Chorus),
     LyricLine(Line1, <<>>),
     LyricLine(Line2, <<>>),
     LyricLine(<<>>, <<>>),
     LyricLine(<<"[", "]">>, <<>>)}

MaxLrcLines == 2      \* lines of a time-coded text
MaxLyricLines == 4    \* lines of a plain lyrics text
MaxTimedLines == 3    \* timed lines handed to findActiveLRCIndex
SeqsUpTo(S, n) == UNION {[1..k -> S] : k \in 1..n}
LinesOf(src) == [i \in 1..Len(src) |-> IF "line" \in DOMAIN src[i] THEN src[i].line
                                                               ELSE Written(src[i])]
\* playback positions and durations, in milliseconds
PlayTimes == {-1000, 0, 4000, 5000, 7000, 10000, 12000}
Durations == {0, 9000}
TimedLines == {<<>>} \cup SeqsUpTo({[time |-> t, text |-> La] : t \in {0, 5000, 10000}}, MaxTimedLines)
Panels == {"LyricsPanel", "DetailLyricsPanel"}

\* one argument is given: a time-coded text, a plain lyrics text, or timed lines
LyricsInit ==
    /\ HookIdle
    /\ StoresIdle
    /\ panel = "LyricsPanel"
    /\ currentTime = 0
    /\ duration = 0
    /\ isCurrentTrack = TRUE
    /\ sections = <<>>
    /\ activeLRCIndex = -1
    /\ activeSectionIndex = -1
    /\ plain = <<>>
    /\ ran = "none"
    /\ \/ /\ given = "lrc"
          /\ source \in SeqsUpTo(LrcSamples, MaxLrcLines)
          /\ lrcLyrics = Join(LinesOf(source))
          /\ panelLyrics = <<>>
          /\ lrcLines = <<>>
       \/ /\ given = "lyrics"
          /\ source \in SeqsUpTo(LyricSamples, MaxLyricLines)
          /\ panelLyrics = Join(LinesOf(source))
          /\ lrcLyrics = <<>>
          /\ lrcLines = <<>>
       \/ /\ given = "lines"
          /\ source = <<>>
          /\ lrcLines \in TimedLines
          /\ lrcLyrics = <<>>
          /\ panelLyrics = <<>>

CallParseLRC ==
    /\ given = "lrc"
    /\ lrcLines' = ParseLRC(lrcLyrics)
    /\ ran' = "parseLRC"
    /\ UNCHANGED <<create, stores, given, source, props, sections, activeLRCIndex,
                   activeSectionIndex, plain>>

CallLrcToPlain ==
    /\ given = "lrc"
    /\ plain' = LrcToPlain(lrcLyrics)
    /\ ran' = "lrcToPlain"
    /\ UNCHANGED <<create, stores, given, source, props, memo>>

CallParseLyrics ==
    /\ given = "lyrics"
    /\ sections' = ParseLyrics(panelLyrics)
    /\ ran' = "parseLyrics"
    /\ UNCHANGED <<create, stores, given, source, props, lrcLines, activeLRCIndex,
                   activeSectionIndex, plain>>

CallFindActiveLRCIndex(t) ==
    /\ given = "lines"
    /\ currentTime' = t
    /\ activeLRCIndex' = FindActiveLRCIndex(lrcLines, t)
    /\ ran' = "findActiveLRCIndex"
    /\ UNCHANGED <<create, stores, given, source, panel, panelLyrics, lrcLyrics, duration,
                   isCurrentTrack, lrcLines, sections, activeSectionIndex, plain>>

LyricsNext ==
    \/ CallParseLRC
    \/ CallLrcToPlain
    \/ CallParseLyrics
    \/ \E t \in PlayTimes : CallFindActiveLRCIndex(t)

LyricsSpec == LyricsInit /\ [][LyricsNext]_vars

\* ------------------------------------------- LyricsPanel, DetailLyricsPanel
\* const lrcLines = useMemo(...)
LrcLinesOf(lrc) == IF lrc = <<>> THEN <<>> ELSE ParseLRC(lrc)
\* const sections = useMemo(...) computed whether or not LRC lines exist
SectionsAlways(useLRC, text) == IF text = <<>> THEN <<>> ELSE ParseLyrics(text)
\* const sections = useMemo(...)
SectionsOf(useLRC, text) == IF useLRC \/ text = <<>> THEN <<>> ELSE ParseLyrics(text)
\* LyricsPanel has no isCurrentTrack; DetailLyricsPanel tests it
ShowsCurrentTrack(p, current) == p = "LyricsPanel" \/ current
\* const activeLRCIndex = useMemo(...)
ActiveLRCIndexOf(p, current, useLRC, lines, now) ==
    IF ~useLRC \/ ~ShowsCurrentTrack(p, current) THEN -1
    ELSE FindActiveLRCIndex(lines, now)
Min(a, b) == IF a <= b THEN a ELSE b
\* Math.floor(progress * sections.length) without the Math.min
SectionIndexUnclamped(now, whole, n) == (now * n) \div whole
\* Math.min(Math.floor((currentTime / duration) * sections.length), sections.length - 1),
\* the quotient taken exactly
SectionIndex(now, whole, n) == Min((now * n) \div whole, n - 1)
\* const activeSectionIndex = useMemo(...)
ActiveSectionIndexOf(p, current, useLRC, secs, now, whole) ==
    IF useLRC \/ ~ShowsCurrentTrack(p, current) \/ Len(secs) = 0 \/ whole <= 0 THEN -1
    ELSE SectionIndex(now, whole, Len(secs))

\* the body of the component for the props of the next state
Memoize ==
    LET lines == LrcLinesOf(lrcLyrics')
        useLRC == Len(lines) > 0
        secs == SectionsOf(useLRC, panelLyrics')
    IN /\ lrcLines' = lines
       /\ sections' = secs
       /\ activeLRCIndex' =
              ActiveLRCIndexOf(panel', isCurrentTrack', useLRC, lines, currentTime')
       /\ activeSectionIndex' =
              ActiveSectionIndexOf(panel', isCurrentTrack', useLRC, secs,
                                   currentTime', duration')

PanelLrc == {<<>>, <<HelloAt1500, WorldAt3000>>, <<VerseAt1500>>, <<PlainHello>>}
PanelLyrics ==
    {<<>>, <<Line1>>,
     <<<<"[">> \o Verse \o <<"]">>, Line1, <<"[">> \o Chorus \o <<"]">>, Line2>>,
     <<Line1, <<"[">> \o Verse \o <<"]">>, Line2, <<"[">> \o Chorus \o <<"]">>>>}

\* a panel is about to be mounted with some props
PanelInit ==
    /\ HookIdle
    /\ StoresIdle
    /\ given = "props"
    /\ panel \in Panels
    /\ source \in PanelLrc
    /\ lrcLyrics = Join(LinesOf(source))
    /\ panelLyrics \in {Join(ls) : ls \in PanelLyrics}
    /\ currentTime \in PlayTimes
    /\ duration \in Durations
    /\ isCurrentTrack \in (IF panel = "LyricsPanel" THEN {TRUE} ELSE BOOLEAN)
    /\ lrcLines = <<>>
    /\ sections = <<>>
    /\ activeLRCIndex = -1
    /\ activeSectionIndex = -1
    /\ plain = <<>>
    /\ ran = "none"

\* first render
Render ==
    /\ given = "props"
    /\ ran = "none"
    /\ ran' = "render"
    /\ UNCHANGED props
    /\ Memoize
    /\ UNCHANGED <<create, stores, given, source, plain>>

\* the player's time moves: the currentTime prop changes and the panel renders
TimeUpdate(t) ==
    /\ ran = "render"
    /\ t # currentTime
    /\ currentTime' = t
    /\ UNCHANGED <<panel, panelLyrics, lrcLyrics, duration, isCurrentTrack>>
    /\ Memoize
    /\ UNCHANGED <<create, stores, given, source, plain, ran>>

PanelNext ==
    \/ Render
    \/ \E t \in PlayTimes : TimeUpdate(t)

PanelSpec == PanelInit /\ [][PanelNext]_vars

\* ------------------------------------------------------------------ claims
\* a continuation of a fetch of loop h runs in this step
FetchEnds(h) == inflight'[h] < inflight[h]
\* a tick of loop h issues a fetch in this step
FetchIssued(h) == inflight'[h] > inflight[h]
\* what the callback may show the user
Shown == <<store, progressMessage>>
\* a step that is a pollTask call
Starts == nextHandle' # nextHandle

\* C1: after start(A) and then start(B) exactly one loop is live, B's, and no
\* callback of a loop that a later start replaced changes the status, progress,
\* progress message, lyrics, title, error or success message.
C1_ReplacedLoopIsSilent ==
    [][/\ Starts => timers' = {nextHandle}
       /\ \A h \in Handles : (h < Newest /\ FetchEnds(h)) => UNCHANGED Shown]_vars

\* C2: in every reachable state at most one interval timer is live.
C2_AtMostOneTimer == Cardinality(timers) <= 1

\* C3: when cancel() returns the progress message is empty and no loop is live,
\* and none is until the next start().
C3_CancelStopsPolling ==
    /\ [][CancelPolling => (timers' = {} /\ progressMessage' = "")]_vars
    /\ [](cancelled => timers = {})

\* C4: the continuation of a fetch that was in flight when cancel() was called
\* changes nothing the user is shown and schedules no scroll.
C4_CancelledFetchDiscarded ==
    [][\A h \in Handles :
        (atCancel[h] > 0 /\ FetchEnds(h)) => UNCHANGED <<Shown, scrollPending>>]_vars

\* no timer is live and no callback is suspended
Quiescent == timers = {} /\ InFlight = 0
\* a loop whose timer is not live issues no fetch, and a timer comes alive only
\* in a pollTask call
StoppedLoopStaysStopped ==
    \A h \in Handles : h \notin timers => (~FetchIssued(h) /\ (h \in timers' => Starts))
\* a loop that ran a terminal branch or the catch block has no live timer
SurfacedLoopsStopped == \A h \in surfaced : h \notin timers
Completed == {gen \in Responses : gen.status = "completed"}
Failed == {gen \in Responses : gen.status = "failed"}

\* C5: the tick that observes "completed" sets the status to completed and stops
\* its timer for good, so the loop issues no further fetch; when that loop was
\* the only one and this its only fetch (one result per tick), no timer is live
\* and no callback is left to run afterwards.
C5_CompletedEndsPolling ==
    /\ [][\A h \in Handles : FetchEnds(h) => \A gen \in Completed :
            Resolve(h, gen) =>
                /\ generationStatus' = "completed"
                /\ h \notin timers'
                /\ (timers = {h} /\ InFlight = 1) => Quiescent']_vars
    /\ []SurfacedLoopsStopped
C5_Witness ==
    /\ generationStatus = "completed" /\ Quiescent
    /\ surfaced = {1} /\ Newest = 1 /\ ~cancelled /\ progress = 60

\* a callback of loop h runs a terminal branch or the catch block in this step
Surfaces(h) ==
    Reject(h) \/ \E gen \in Completed \cup Failed : Resolve(h, gen)

\* C6: the terminal outcome of a lifecycle is surfaced once: the step that
\* surfaces it is the first of its loop to do so.
C6_SurfacedOnce ==
    [][\A h \in Handles : Surfaces(h) => (h \notin surfaced /\ h \in surfaced')]_vars

\* C7: a rejected fetch stops the timer of its loop for good (no retry) and
\* leaves the ref null, the status failed, the lost-connection message and an
\* empty progress message; when that loop was the only one and this its only
\* fetch, no timer is live and no callback is left to run afterwards.
C7_RejectEndsPolling ==
    /\ [][\A h \in Handles :
            (FetchEnds(h) /\ Reject(h)) =>
                /\ timers' = timers \ {h}
                /\ pollIntervalRef' = 0
                /\ generationStatus' = "failed"
                /\ errorMessage' = LostConnection
                /\ progressMessage' = ""
                /\ (timers \subseteq {h} /\ InFlight = 1) => Quiescent']_vars
    /\ []SurfacedLoopsStopped
C7_Witness ==
    /\ generationStatus = "failed" /\ errorMessage = LostConnection
    /\ Quiescent /\ surfaced = {1} /\ Newest = 1 /\ ~cancelled

\* C8: the tick that observes "failed" sets the status to failed, stops its timer
\* and surfaces error_message verbatim when the task carries one, the generic
\* message otherwise.
C8_FailedSurfacesMessage ==
    [][\A h \in Handles : FetchEnds(h) => \A gen \in Failed :
        Resolve(h, gen) =>
            /\ generationStatus' = "failed"
            /\ h \notin timers'
            /\ gen.error_message # "" => errorMessage' = gen.error_message
            /\ gen.error_message = "" => errorMessage' = GenericFailure]_vars
C8_Witness ==
    /\ generationStatus = "failed" /\ errorMessage = "model unavailable"
    /\ timers = {} /\ surfaced = {1}

\* C9: cancel() with no live loop changes nothing: not the store, the progress
\* message, the ref or the timers.
C9_IdleCancelIsNoOp ==
    [][(CancelPolling /\ timers = {}) => UNCHANGED <<Shown, pollIntervalRef, timers>>]_vars

\* C10: under fair ticks and fetch completion, a loop that observed a terminal
\* status or a failed fetch is not live, after cancel() every loop eventually is
\* stopped (or a new start() is made), and a stopped loop issues no fetch.
C10_PollingTerminates ==
    /\ []SurfacedLoopsStopped
    /\ cancelled ~> (timers = {} \/ ~cancelled)
    /\ [][StoppedLoopStaysStopped]_vars

\* C11: start(B) after the previous lifecycle reached a terminal state begins a
\* fresh, independent lifecycle: B's timer is live, and the outcome shown for B
\* is not changed by a fetch of the lifecycle that had ended.
C11_FreshLifecycle ==
    [][/\ (Starts /\ Newest \in surfaced) => nextHandle \in timers'
       /\ (afterTerminal /\ FetchEnds(Newest - 1)) => UNCHANGED generationStatus]_vars

\* C12: a click on cancel while a task is generating stops the polling loop and
\* sets generationStatus to "idle" in the click itself, without waiting for the
\* cancel request to settle.
C12_CancelIsFireAndForget ==
    [][CancelClick => /\ pollIntervalRef \notin timers'
                      /\ pollIntervalRef' = 0
                      /\ generationStatus' = "idle"]_vars

\* ---- lyrics claims ----
\* the time a written stamp stands for, in milliseconds: MM*60 + SS seconds
\* and the fraction, centiseconds when it has 2 digits, milliseconds when 3
StampTime(s) ==
    (s.stamp[1] * 60 + s.stamp[2]) * 1000
        + (IF s.stamp[4] = 2 THEN s.stamp[3] * 10 ELSE s.stamp[3])
\* a written line that is of the timestamp form, with text, not a marker
Qualifies(s) == s.timed /\ s.shows # <<>> /\ ~s.marker
Qualifying == SelectSeq(source, Qualifies)
NonDecreasing(lines) == \A i \in 1..(Len(lines) - 1) : lines[i].time <= lines[i + 1].time

\* C13: for timed lines with non-decreasing times, findActiveLRCIndex returns
\* the greatest index whose line has time <= t, and -1 when there is none (t
\* before the first line, or no lines).
C13_ActiveLineIsLastStarted ==
    (ran = "findActiveLRCIndex" /\ NonDecreasing(lrcLines)) =>
        LET started == {i \in 0..(Len(lrcLines) - 1) : lrcLines[i + 1].time <= currentTime}
        IN IF started = {} THEN activeLRCIndex = -1
           ELSE activeLRCIndex \in started /\ \A i \in started : i <= activeLRCIndex
C13_Witness ==
    /\ ran = "findActiveLRCIndex"
    /\ [i \in 1..Len(lrcLines) |-> lrcLines[i].time] = <<0, 5000, 10000>>
    /\ currentTime = 7000
    /\ activeLRCIndex = 1

\* C14: every line parseLRC keeps has the time its stamp stands for,
\* MM*60 + SS + fraction, a 2-digit fraction counting centiseconds and a
\* 3-digit one milliseconds, so that .50 and .500 give the same time.
C14_TimeFromStamp ==
    ran = "parseLRC" =>
        /\ Len(lrcLines) = Len(Qualifying)
        /\ \A i \in 1..Len(lrcLines) : lrcLines[i].time = StampTime(Qualifying[i])
C14_Witness ==
    /\ ran = "parseLRC"
    /\ source = <<HelloAt1500, WorldAt3000>>
    /\ lrcLines = <<[time |-> 1500, text |-> Hello], [time |-> 3000, text |-> World]>>

\* C15: the texts parseLRC returns are, in source order, exactly the trimmed
\* texts of the lines of timestamp form whose text is neither empty nor a
\* structural marker; every other line is skipped, possibly all of them.
C15_KeepsQualifyingLines ==
    ran = "parseLRC" =>
        [i \in 1..Len(lrcLines) |-> lrcLines[i].text]
            = [i \in 1..Len(Qualifying) |-> Qualifying[i].shows]
C15_Witness ==
    /\ ran = "parseLRC"
    /\ source = <<VerseAt1500, WorldAt3000>>
    /\ lrcLines = <<[time |-> 3000, text |-> World]>>

\* positions of the tag lines of the source, and whether untagged lines lead
TagLines == {i \in 1..Len(source) : source[i].tag # <<>>}
Leading == IF source[1].tag = <<>> THEN 1 ELSE 0
\* position of the tag line that opens the k-th section (0: the leading one)
Opens(k) ==
    IF k <= Leading THEN 0
    ELSE CHOOSE i \in TagLines : Cardinality({j \in TagLines : j < i}) = k - Leading - 1
\* position of the last line of the k-th section
Closes(k) ==
    IF k = Cardinality(TagLines) + Leading THEN Len(source) ELSE Opens(k + 1) - 1

\* C16: parseLyrics opens a section at every tag line [TagName] and appends
\* every other line to the section that is open; a section is emitted when it
\* has a tag or a line, and the sections are numbered 0, 1, 2, ... in order.
C16_SectionsFollowTags ==
    ran = "parseLyrics" =>
        /\ Len(sections) = Cardinality(TagLines) + Leading
        /\ \A k \in 1..Len(sections) :
               /\ sections[k].index = k - 1
               /\ sections[k].tag = (IF Opens(k) = 0 THEN <<>> ELSE source[Opens(k)].tag)
               /\ sections[k].lines
                      = [j \in 1..(Closes(k) - Opens(k)) |-> source[Opens(k) + j].line]
               /\ sections[k].tag # <<>> \/ sections[k].lines # <<>>
C16_Witness ==
    /\ ran = "parseLyrics"
    /\ panelLyrics = Join(<<<<"[">> \o Verse \o <<"]">>, Line1, Line2,
                           <<"[">> \o Chorus \o <<"]">>>>)
    /\ sections = <<[tag |-> Verse, lines |-> <<Line1, Line2>>, index |-> 0],
                    [tag |-> Chorus, lines |-> <<>>, index |-> 1]>>

\* the lines of the sections put back: "[tag]" when the tag is not empty, then
\* the section's lines
RECURSIVE Rejoin(_)
Rejoin(secs) ==
    IF secs = <<>> THEN <<>>
    ELSE (IF secs[1].tag # <<>> THEN <<<<"[">> \o secs[1].tag \o <<"]">>>> ELSE <<>>)
             \o secs[1].lines \o Rejoin(Tail(secs))

\* C17: putting the sections parseLyrics returns back into lines gives the
\* lines of the input, none lost, doubled or moved.
C17_RoundTrip == ran = "parseLyrics" => Rejoin(sections) = LinesOf(source)
C17_Witness ==
    /\ ran = "parseLyrics"
    /\ LinesOf(source) = <<Line1, <<"[">> \o Verse \o <<"]">>, <<>>, <<"[", "]">>>>
    /\ Len(sections) = 2
    /\ Rejoin(sections) = LinesOf(source)

\* the texts of consecutive timed lines with one blank line wherever the
\* stamps are more than 6 seconds apart
RECURSIVE Spaced(_, _)
Spaced(src, i) ==
    IF i > Len(src) THEN <<>>
    ELSE (IF i > 1 /\ StampTime(src[i]) - StampTime(src[i - 1]) > 6000
          THEN <<<<>>>> ELSE <<>>)
             \o <<src[i].shows>> \o Spaced(src, i + 1)

\* C18: for a text of timed lines with non-empty texts, lrcToPlain returns
\* the texts with exactly one blank line between two consecutive lines whose
\* stamps are more than 6 seconds apart and none when they are 6 seconds or
\* less apart.
C18_BlankLineOnlyOver6s ==
    (ran = "lrcToPlain" /\ \A i \in 1..Len(source) : source[i].timed /\ source[i].shows # <<>>)
        => plain = Join(Spaced(source, 1))

\* k is floor((currentTime / duration) * n) clamped to n - 1
ClampedFloor(k, n) ==
    \/ k <= n - 1 /\ k * duration <= currentTime * n /\ currentTime * n < (k + 1) * duration
    \/ k = n - 1 /\ currentTime * n >= n * duration

\* C19 as stated: whenever duration > 0 and there are n > 0 sections, the
\* active section index is floor((currentTime / duration) * n) clamped to
\* n - 1, within 0..n-1 for currentTime >= 0; otherwise it is -1.
C19_SectionIndexByProgress ==
    ran = "render" =>
        IF duration > 0 /\ Len(sections) > 0
        THEN /\ ClampedFloor(activeSectionIndex, Len(sections))
             /\ currentTime >= 0 => activeSectionIndex \in 0..(Len(sections) - 1)
        ELSE activeSectionIndex = -1

\* C19 amended: the same, for a panel showing the track that is playing
\* (LyricsPanel always, DetailLyricsPanel when isCurrentTrack); for any other
\* track the index is -1.
C19_SectionIndexOfCurrentTrack ==
    ran = "render" =>
        IF duration > 0 /\ Len(sections) > 0 /\ (panel = "LyricsPanel" \/ isCurrentTrack)
        THEN /\ ClampedFloor(activeSectionIndex, Len(sections))
             /\ currentTime >= 0 => activeSectionIndex \in 0..(Len(sections) - 1)
        ELSE activeSectionIndex = -1
C19_Witness ==
    /\ ran = "render"
    /\ panel = "DetailLyricsPanel"
    /\ isCurrentTrack
    /\ duration = 9000
    /\ currentTime = 12000
    /\ Len(sections) = 2
    /\ activeSectionIndex = 1

\* the modes never overlap
ModesExclusive ==
    /\ Len(lrcLines) > 0 => (sections = <<>> /\ activeSectionIndex = -1)
    /\ Len(sections) > 0 => (Len(lrcLines) = 0 /\ panelLyrics # <<>>)
    /\ Len(lrcLines) = 0 => activeLRCIndex = -1
    /\ ~(activeLRCIndex >= 0 /\ activeSectionIndex >= 0)

\* C20 as stated: time-coded mode is used whenever the time-coded lyrics text
\* is present and not empty, section-tag mode only when there are no time-coded
\* lines and the plain lyrics are present, and at most one of the two active
\* indexes is >= 0.
C20_TimeCodedTextTakesPrecedence ==
    ran = "render" =>
        /\ lrcLyrics # <<>> => Len(lrcLines) > 0
        /\ ModesExclusive

\* C20 amended: time-coded mode is used exactly when the time-coded text has
\* at least one line that parseLRC keeps; a text without one falls back to
\* section-tag mode.  The rest as stated.
C20_TimeCodedLinesTakePrecedence ==
    ran = "render" =>
        /\ Len(lrcLines) > 0 <=> \E i \in 1..Len(source) : Qualifies(source[i])
        /\ ModesExclusive
C20_Witness ==
    /\ ran = "render"
    /\ source = <<HelloAt1500, WorldAt3000>>
    /\ panelLyrics # <<>>
    /\ currentTime = 4000
    /\ activeLRCIndex = 1
    /\ sections = <<>>
    /\ activeSectionIndex = -1

\* ------------------------------------------- usePlayerStore, like toggles
MaxQueue == 2       \* tracks in a list handed to setQueue
MaxLikes == 1       \* like toggles whose callback or request is outstanding at once
PlayTimesSeconds == {0, 5}

\* tracks[startIndex] (0-based); undefined off the list
HasTrackAt(tracks, startIndex) == startIndex \in 0..(Len(tracks) - 1)
\* queue.findIndex((t) => t.id === track.id), 0-based, -1 when none
FindIndex(tracks, id) ==
    IF \E i \in 1..Len(tracks) : tracks[i].id = id
    THEN (CHOOSE i \in 1..Len(tracks) :
            tracks[i].id = id /\ \A j \in 1..(i - 1) : tracks[j].id # id) - 1
    ELSE -1

\* callbacks and requests of like toggles that are outstanding
Outstanding == Sum(likeSyncs, Cardinality(TrackIds)) + Sum(likeRequests, Cardinality(TrackIds))
LikesSettled == Outstanding = 0
\* an operation that replaces currentTrack while a toggle is outstanding
Interferes == interfered' = (interfered \/ ~LikesSettled)

\* setCurrentTrack(track)
SetCurrentTrack(track) ==
    /\ UNCHANGED aroundPlayer
    /\ currentTrack' = track
    /\ Interferes
    /\ UNCHANGED <<isPlaying, queue, queueIndex, playbackTime, generations,
                   likeSyncs, likeRequests, toggled>>

\* setCurrentTime(time)
SetCurrentTime(time) ==
    /\ UNCHANGED aroundPlayer
    /\ playbackTime' = time
    /\ UNCHANGED <<currentTrack, isPlaying, queue, queueIndex, likeVars>>

\* play(track)
Play(track) ==
    /\ UNCHANGED aroundPlayer
    /\ currentTrack' = track
    /\ isPlaying' = TRUE
    /\ queueIndex' = IF FindIndex(queue, track.id) # -1 THEN FindIndex(queue, track.id)
                                                       ELSE queueIndex
    /\ Interferes
    /\ UNCHANGED <<queue, playbackTime, generations, likeSyncs, likeRequests, toggled>>

\* stop()
Stop ==
    /\ UNCHANGED aroundPlayer
    /\ isPlaying' = FALSE
    /\ playbackTime' = 0
    /\ UNCHANGED <<currentTrack, queue, queueIndex, likeVars>>

\* setQueue without its `if (!track) return`
SetQueueUnchecked(tracks, startIndex) ==
    /\ UNCHANGED aroundPlayer
    /\ queue' = tracks
    /\ queueIndex' = startIndex
    /\ currentTrack' = IF HasTrackAt(tracks, startIndex) THEN tracks[startIndex + 1]
                                                          ELSE NoTrack
    /\ isPlaying' = TRUE
    /\ Interferes
    /\ UNCHANGED <<playbackTime, generations, likeSyncs, likeRequests, toggled>>

\* setQueue(tracks, startIndex)
SetQueue(tracks, startIndex) ==
    /\ UNCHANGED aroundPlayer
    /\ IF ~HasTrackAt(tracks, startIndex)
       THEN UNCHANGED <<playerVars, likeVars>>
       ELSE /\ queue' = tracks
            /\ queueIndex' = startIndex
            /\ currentTrack' = tracks[startIndex + 1]
            /\ isPlaying' = TRUE
            /\ Interferes
            /\ UNCHANGED <<playbackTime, generations, likeSyncs, likeRequests, toggled>>

\* playNext()
PlayNext ==
    /\ UNCHANGED aroundPlayer
    /\ IF Len(queue) = 0 \/ queueIndex + 1 >= Len(queue)
       THEN /\ isPlaying' = FALSE
            /\ UNCHANGED <<currentTrack, queue, queueIndex, playbackTime, likeVars>>
       ELSE /\ queueIndex' = queueIndex + 1
            /\ currentTrack' = queue[queueIndex + 2]
            /\ isPlaying' = TRUE
            /\ Interferes
            /\ UNCHANGED <<queue, playbackTime, generations, likeSyncs, likeRequests, toggled>>

\* playPrevious()
PlayPrevious ==
    /\ UNCHANGED aroundPlayer
    /\ IF Len(queue) = 0 \/ queueIndex - 1 < 0
       THEN UNCHANGED <<playerVars, likeVars>>
       ELSE /\ queueIndex' = queueIndex - 1
            /\ currentTrack' = queue[queueIndex]
            /\ isPlaying' = TRUE
            /\ Interferes
            /\ UNCHANGED <<queue, playbackTime, generations, likeSyncs, likeRequests, toggled>>

\* generations.map((g) => g.id === id ? {...g, is_liked: !g.is_liked} : g)
FlipLiked(gens, id) ==
    [i \in 1..Len(gens) |->
        IF gens[i].id = id THEN Track(id, ~gens[i].is_liked) ELSE gens[i]]
\* the player's current track, if it is the one with this id, shows the same
\* is_liked as the library entry with the id
Agree(id) ==
    \A i \in 1..Len(generations) :
        (generations[i].id = id /\ currentTrack.id = id)
            => generations[i].is_liked = currentTrack.is_liked
\* the player's current track and a library entry have this id
Shared(id) == currentTrack.id = id /\ \E i \in 1..Len(generations) : generations[i].id = id

\* useLibraryStore.toggleLike(id) up to its return: the optimistic flip, the
\* import().then callback queued, the request sent
LibraryToggle(id) ==
    /\ UNCHANGED aroundPlayer
    /\ Outstanding < MaxLikes
    /\ generations' = FlipLiked(generations, id)
    /\ likeSyncs' = [likeSyncs EXCEPT ![id] = @ + 1]
    /\ likeRequests' = [likeRequests EXCEPT ![id] = @ + 1]
    /\ interfered' = FALSE
    /\ UNCHANGED <<isPlaying, queue, queueIndex, playbackTime>>

\* useLibraryStore.toggleLike(id), called from the library page or detail page
LibraryToggleLike(id) ==
    /\ LibraryToggle(id)
    /\ toggled' = [origin |-> "library", id |-> id, agreed |-> Shared(id) /\ Agree(id)]
    /\ UNCHANGED currentTrack

\* usePlayerStore.toggleLike(id): flips currentTrack when it is the track, then
\* calls useLibraryStore.toggleLike(id)
PlayerToggleLike(id) ==
    /\ currentTrack' = IF currentTrack # NoTrack /\ currentTrack.id = id
                       THEN Track(id, ~currentTrack.is_liked)
                       ELSE currentTrack
    /\ LibraryToggle(id)
    /\ toggled' = [origin |-> "player", id |-> id, agreed |-> Shared(id) /\ Agree(id)]

\* the import("./playerStore").then callback of a toggle for id runs
LikeSync(id) ==
    /\ UNCHANGED aroundPlayer
    /\ likeSyncs[id] > 0
    /\ likeSyncs' = [likeSyncs EXCEPT ![id] = @ - 1]
    /\ currentTrack' = IF currentTrack.id = id
                       THEN Track(id, ~currentTrack.is_liked)
                       ELSE currentTrack
    /\ UNCHANGED <<isPlaying, queue, queueIndex, playbackTime, generations,
                   likeRequests, toggled, interfered>>

\* api.toggleLike(id) resolves: nothing is done with the answer
LikeResolves(id) ==
    /\ UNCHANGED aroundPlayer
    /\ likeRequests[id] > 0
    /\ likeRequests' = [likeRequests EXCEPT ![id] = @ - 1]
    /\ UNCHANGED <<playerVars, generations, likeSyncs, toggled, interfered>>

\* api.toggleLike(id) rejects: the catch flips the library entry back
LikeRejects(id) ==
    /\ UNCHANGED aroundPlayer
    /\ likeRequests[id] > 0
    /\ likeRequests' = [likeRequests EXCEPT ![id] = @ - 1]
    /\ generations' = FlipLiked(generations, id)
    /\ UNCHANGED <<playerVars, likeSyncs, toggled, interfered>>

\* lists the callers hand to setQueue: the library page's generations, or one
\* completed generation
QueueLists == {<<>>} \cup SeqsUpTo(Tracks, MaxQueue)
\* the library holds the two generations, liked or not
PlayerInit ==
    /\ HookIdle
    /\ LyricsIdle
    /\ PlayerIdle
    /\ LikesIdle
    /\ LibraryIdle
    /\ AppIdle
    /\ generations \in {<<Track(1, a), Track(2, b)>> : a \in BOOLEAN, b \in BOOLEAN}

\* the player store's operations
PlayerNext ==
    \/ \E track \in Tracks \cup {NoTrack} : SetCurrentTrack(track)
    \/ \E time \in PlayTimesSeconds : SetCurrentTime(time)
    \/ \E track \in Tracks : Play(track)
    \/ Stop
    \/ \E tracks \in QueueLists : \E startIndex \in 0..MaxQueue :
           SetQueue(tracks, startIndex)
    \/ PlayNext
    \/ PlayPrevious

PlayerSpec == PlayerInit /\ [][PlayerNext]_vars

\* like toggles from either store, with the operations that show a track
LikeNext ==
    \/ \E track \in Tracks : Play(track)
    \/ \E track \in Tracks \cup {NoTrack} : SetCurrentTrack(track)
    \/ \E id \in TrackIds : LibraryToggleLike(id)
    \/ \E id \in TrackIds : PlayerToggleLike(id)
    \/ \E id \in TrackIds : LikeSync(id)
    \/ \E id \in TrackIds : LikeResolves(id)
    \/ \E id \in TrackIds : LikeRejects(id)

LikeSpec == PlayerInit /\ [][LikeNext]_vars

\* ------------------------------------------------------------ useAppStore
MaxTrail == 3       \* navigation operations remembered
\* PageId without "detail": the pages setCurrentPage is called with
NavPages == {"create", "library", "providers", "settings"}
NoDetail == 0       \* detailGenerationId: null

\* the last MaxTrail operations, the newest last
Remember(op) ==
    trail' = IF Len(trail) < MaxTrail THEN Append(trail, op)
                                      ELSE Append(Tail(trail), op)

\* setCurrentPage(page)
SetCurrentPage(pageId) ==
    /\ currentPage' = pageId
    /\ Remember("setCurrentPage")
    /\ UNCHANGED <<previousPage, detailGenerationId, sidebarCollapsed, shownBefore>>
    /\ UNCHANGED aroundApp

\* toggleSidebar()
ToggleSidebar ==
    /\ sidebarCollapsed' = ~sidebarCollapsed
    /\ Remember("toggleSidebar")
    /\ UNCHANGED <<currentPage, previousPage, detailGenerationId, shownBefore>>
    /\ UNCHANGED aroundApp

\* openDetail remembering the current page even when it is the detail page
OpenDetailAlways(id) ==
    /\ detailGenerationId' = id
    /\ previousPage' = currentPage
    /\ currentPage' = "detail"
    /\ shownBefore' = IF currentPage = "detail" THEN shownBefore ELSE currentPage
    /\ Remember("openDetail")
    /\ UNCHANGED sidebarCollapsed
    /\ UNCHANGED aroundApp

\* openDetail(id)
OpenDetail(id) ==
    /\ detailGenerationId' = id
    /\ previousPage' = IF currentPage = "detail" THEN previousPage ELSE currentPage
    /\ currentPage' = "detail"
    /\ shownBefore' = IF currentPage = "detail" THEN shownBefore ELSE currentPage
    /\ Remember("openDetail")
    /\ UNCHANGED sidebarCollapsed
    /\ UNCHANGED aroundApp

\* closeDetail()
CloseDetail ==
    /\ currentPage' = previousPage
    /\ detailGenerationId' = NoDetail
    /\ Remember("closeDetail")
    /\ UNCHANGED <<previousPage, sidebarCollapsed, shownBefore>>
    /\ UNCHANGED aroundApp

AppNext ==
    \/ \E pageId \in NavPages : SetCurrentPage(pageId)
    \/ ToggleSidebar
    \/ \E id \in TrackIds : OpenDetail(id)
    \/ CloseDetail

AppSpec == Init /\ [][AppNext]_vars

\* ------------------------------------------- useLibraryStore, fetchGenerations
MaxFetches == 3     \* fetchGenerations calls in one behaviour
limit == 1          \* page size of a request (the store's limit, scaled down)
LoadError == "library.loadError"

\* what the backend holds for a query: GET /generations filtered and sorted
Items(q) ==
    CASE q = "newest" -> <<Track(1, FALSE), Track(2, TRUE)>>
      [] q = "liked" -> <<Track(2, TRUE)>>
      [] OTHER -> <<>>
\* data.items of the answer to a request for q at offset off
Page(q, off) == SubSeq(Items(q), off + 1, Min(off + limit, Len(Items(q))))

\* requests issued so far
Issued == IF lastIssued = NoRequest THEN 0 ELSE lastIssued.n
\* fetchGenerations(append) up to await api.getGenerations: the request carries
\* the filters, sort and offset of the state read at the call
FetchGenerations(append) ==
    /\ Issued < MaxFetches
    /\ loading' = IF append THEN loading ELSE TRUE
    /\ libraryError' = IF append THEN libraryError ELSE Null
    /\ offset' = IF append THEN offset ELSE 0
    /\ lastIssued' = [n |-> Issued + 1, query |-> query, append |-> append,
                      offset |-> IF append THEN offset ELSE 0,
                      base |-> generations, ended |-> "none"]
    /\ fetches' = fetches \cup {[lastIssued' EXCEPT !.ended = "none"]}
    /\ UNCHANGED <<generations, total, query>>
    /\ UNCHANGED aroundLibrary

\* the initial load of LibraryPage, or the retry button
Refresh ==
    /\ FetchGenerations(FALSE)
    /\ UNCHANGED <<fetchTimers, debounce>>

\* loadMore(), offered while more is to be had and nothing is loading
LoadMore ==
    /\ Len(generations) < total /\ ~loading /\ Len(generations) > 0
    /\ FetchGenerations(TRUE)
    /\ UNCHANGED <<fetchTimers, debounce>>

\* setFilter, clearFilters, setSort: the state is set, the fetch is deferred
SetFilter(q) ==
    /\ Issued + fetchTimers + (IF debounce THEN 1 ELSE 0) < MaxFetches
    /\ query' = q
    /\ fetchTimers' = fetchTimers + 1
    /\ UNCHANGED <<generations, total, offset, loading, libraryError, fetches,
                   debounce, lastIssued>>
    /\ UNCHANGED aroundLibrary

\* the setTimeout(..., 0) callback of setFilter runs
FilterTimerFires ==
    /\ fetchTimers > 0
    /\ fetchTimers' = fetchTimers - 1
    /\ FetchGenerations(FALSE)
    /\ UNCHANGED debounce

\* LibraryPage.handleSearch(q): the search is set, the pending timeout cleared
\* and a new one set
HandleSearch(q) ==
    /\ Issued + fetchTimers < MaxFetches
    /\ query' = q
    /\ debounce' = TRUE
    /\ UNCHANGED <<generations, total, offset, loading, libraryError, fetches,
                   fetchTimers, lastIssued>>
    /\ UNCHANGED aroundLibrary

\* the 300 ms timeout of handleSearch fires
DebounceFires ==
    /\ debounce
    /\ debounce' = FALSE
    /\ FetchGenerations(FALSE)
    /\ UNCHANGED fetchTimers

\* the request is over: the finally block, and the history
Ends(f, how) ==
    /\ fetches' = fetches \ {f}
    /\ loading' = FALSE
    /\ lastIssued' = IF f.n = lastIssued.n THEN [lastIssued EXCEPT !.ended = how]
                                           ELSE lastIssued
    /\ UNCHANGED <<query, fetchTimers, debounce>>
    /\ UNCHANGED aroundLibrary

\* api.getGenerations resolves for the call f: the set after the await
GenerationsResolve(f) ==
    /\ f \in fetches
    /\ generations' = IF f.append THEN f.base \o Page(f.query, f.offset)
                                  ELSE Page(f.query, f.offset)
    /\ total' = Len(Items(f.query))
    /\ offset' = f.offset + Len(Page(f.query, f.offset))
    /\ UNCHANGED libraryError
    /\ Ends(f, "resolved")

\* api.getGenerations rejects for the call f: the catch block
GenerationsReject(f) ==
    /\ f \in fetches
    /\ libraryError' = LoadError
    /\ UNCHANGED <<generations, total, offset>>
    /\ Ends(f, "rejected")

\* every request a call can have made
Requests ==
    [n : 1..MaxFetches, query : Queries, append : BOOLEAN, offset : 0..2,
     base : {<<>>} \cup SeqsUpTo(Tracks, 2), ended : {"none"}]

LibraryNext ==
    \/ Refresh
    \/ LoadMore
    \/ \E q \in Queries : SetFilter(q)
    \/ FilterTimerFires
    \/ \E q \in Queries : HandleSearch(q)
    \/ DebounceFires
    \/ \E f \in Requests : GenerationsResolve(f)
    \/ \E f \in Requests : GenerationsReject(f)

LibrarySpec == Init /\ [][LibraryNext]_vars

\* ---- poller claims, continued ----
\* C21: in every reachable state each polling loop has at most one status
\* fetch in flight, also when a fetch outlasts the 2000 ms interval.
C21_OneFetchInFlight == \A h \in Handles : inflight[h] <= 1

StillRunning == {gen \in Responses : gen.status \in Running}

\* C22: the tick that observes pending or processing stores the returned
\* progress (0 when absent) and progress message (empty when absent), stops no
\* timer, so its own stays live, and leaves generationStatus, lyrics, title,
\* errorMessage and successMessage as they were.
C22_RunningTickUpdatesProgress ==
    [][\A h \in Handles : FetchEnds(h) => \A gen \in StillRunning :
        Resolve(h, gen) =>
            /\ progress' = (IF gen.progress = Absent THEN 0 ELSE gen.progress)
            /\ progressMessage' = gen.progress_message
            /\ UNCHANGED <<timers, pollIntervalRef>>
            /\ h \in timers => h \in timers'
            /\ UNCHANGED <<generationStatus, lyrics, title, errorMessage,
                           successMessage>>]_vars
C22_Witness ==
    /\ progress = 60 /\ progressMessage = "working"
    /\ timers = {1} /\ pollIntervalRef = 1 /\ InFlight = 0
    /\ generationStatus = "idle" /\ surfaced = {}

\* a scroll timeout fires in this step
ScrollFires == scrollPending' < scrollPending

\* C23: the tick that observes completed stores the returned lyrics and title
\* when they are non-empty and keeps the stored ones otherwise, sets the status
\* to completed and the success message, stops its timer, leaves the progress
\* message empty and schedules one scroll; a scroll fires only after a tick
\* has set the status to completed.
C23_CompletedTick ==
    /\ [][\A h \in Handles : FetchEnds(h) => \A gen \in Completed :
            Resolve(h, gen) =>
                /\ lyrics' = (IF gen.lyrics = "" THEN lyrics ELSE gen.lyrics)
                /\ title' = (IF gen.title = "" THEN title ELSE gen.title)
                /\ generationStatus' = "completed"
                /\ successMessage' = SuccessText
                /\ h \notin timers'
                /\ progressMessage' = ""
                /\ scrollPending' = scrollPending + 1]_vars
    /\ [][(scrollPending' > scrollPending) => generationStatus' = "completed"]_vars
    /\ [][ScrollFires => (successMessage = SuccessText /\ surfaced # {})]_vars
C23_Witness ==
    /\ generationStatus = "completed" /\ successMessage = SuccessText
    /\ lyrics = "genLyrics" /\ title = "genTitle"
    /\ progressMessage = "" /\ progress = 0
    /\ timers = {} /\ surfaced = {1} /\ scrollPending = 0

\* C24: whenever an interval timer is live pollIntervalRef holds its handle,
\* and when the ref is null no timer is live.
C24_RefHoldsLiveTimer ==
    /\ \A h \in timers : pollIntervalRef = h
    /\ pollIntervalRef = 0 => timers = {}

\* a handleGenerate call reaches its generate request in this step
Submits == submitting' > submitting

\* C25: after a cancel during the smart-fill phase of handleGenerate (status
\* pending, no task id) and until the next click on generate, no generate
\* request is submitted, no polling loop is started and generationStatus
\* stays "idle".
C25_CancelledFillSubmitsNothing ==
    [][(fillCancelled /\ fillCancelled') =>
            (~Submits /\ ~Starts /\ generationStatus' = "idle")]_vars

\* length of the longest prefix of lines whose times are all <= now
StartedPrefix(lines, now) ==
    Cardinality({k \in 1..Len(lines) : \A i \in 1..k : lines[i].time <= now})

C27_LikesAgreeAfterToggle ==
    (toggled.agreed /\ ~interfered /\ LikesSettled) => Agree(toggled.id)

\* C29: queueIndex is -1 exactly when the queue is empty and otherwise a
\* position in the queue; playNext at the last position only sets isPlaying to
\* false, and playPrevious at position 0 changes nothing.
C29_QueueIndexInQueue ==
    /\ [](queueIndex = -1 <=> queue = <<>>)
    /\ [](queue # <<>> => queueIndex \in 0..(Len(queue) - 1))
    /\ [][(PlayNext /\ queue # <<>> /\ queueIndex = Len(queue) - 1) =>
            (isPlaying' = FALSE /\ UNCHANGED <<queueIndex, currentTrack, queue>>)]_vars
    /\ [][(PlayPrevious /\ queue # <<>> /\ queueIndex = 0) =>
            UNCHANGED <<queueIndex, currentTrack, queue, isPlaying>>]_vars
C29_Witness ==
    /\ Len(queue) = 2 /\ queueIndex = 1
    /\ currentTrack = queue[2]
    /\ ~isPlaying

\* C30: previousPage is never "detail"; closeDetail leaves a page other than
\* the detail page current and detailGenerationId null; and closeDetail on the
\* detail page, also after openDetail(x), openDetail(y), shows the page that
\* was shown when the detail page was entered.
C30_DetailReturnsToEntryPage ==
    /\ [](previousPage # "detail")
    /\ [][CloseDetail => (currentPage' # "detail" /\ detailGenerationId' = NoDetail)]_vars
    /\ [][(CloseDetail /\ currentPage = "detail") => currentPage' = shownBefore]_vars
C30_Witness ==
    /\ trail = <<"openDetail", "openDetail", "closeDetail">>
    /\ currentPage = "settings"
    /\ shownBefore = "settings"
    /\ detailGenerationId = NoDetail

\* no fetch is in flight and none is about to be issued
FetchesQuiet == fetches = {} /\ fetchTimers = 0 /\ ~debounce

\* C28: once every library fetch that was issued has completed, and the one
\* issued last was answered, generations, total and offset are those of the
\* request issued last: the list is the first offset entries of what the
\* backend holds for that request's filters and sort, and total their number.
C28_LatestRequestWins ==
    (FetchesQuiet /\ lastIssued.ended = "resolved") =>
        /\ generations = SubSeq(Items(lastIssued.query), 1, offset)
        /\ offset = Len(generations)
        /\ total = Len(Items(lastIssued.query))
====
